---------------------------- MODULE Spec2Model ----------------------------
(***************************************************************************)
(* Model of openfasoc/generators/gdsfactory-gen/via_gen.py: the layer      *)
(* order resolver, via_stack and via_array.                                *)
(*                                                                         *)
(* Lengths are integers (one unit = one manufacturing grid step), so the   *)
(* arithmetic of the rule table is exact.  Positions of placed references  *)
(* are kept in HALF units (the name ends in 2), because the even-count     *)
(* correction moves a reference by viaspacing_full / 2.                    *)
(***************************************************************************)
EXTENDS Integers, Sequences, FiniteSets

\* number of metal levels of the pdk (met1 .. metMaxLevel)
MaxLevel == 3
\* largest side of the requested area
MaxDim == 25

Max(a, b) == IF a >= b THEN a ELSE b

SeqMax(s) == CHOOSE m \in {s[i] : i \in 1..Len(s)} : \A i \in 1..Len(s) : s[i] <= m

-----------------------------------------------------------------------------
(* generic layer names: the alphabetic stem and the trailing digit         *)

Met(n) == [stem |-> "met", digit |-> n]
Via(n) == [stem |-> "via", digit |-> n]
Mcon == [stem |-> "mcon", digit |-> 0]
Poly == [stem |-> "poly", digit |-> 0]
ActiveDiff == [stem |-> "active_diff", digit |-> 0]

\* the names a caller may pass
GLayers == {Poly, ActiveDiff, Mcon} \cup {Met(n) : n \in 1..MaxLevel}

\* the layers the rule table has separation rules for
RuleLayers == {Mcon} \cup {Via(n) : n \in 1..(MaxLevel - 1)} \cup {Met(n) : n \in 1..MaxLevel}

\* the cut between metal k and metal k+1 (the contact for k = 0)
CutAt(k) == IF k = 0 THEN Mcon ELSE Via(k)

\* rule profiles of a cut layer and of a metal layer
CutProfiles ==
  { [width |-> 1, enc_lower |-> 1, enc_upper |-> 1, min_seperation |-> 1],
    [width |-> 3, enc_lower |-> 1, enc_upper |-> 2, min_seperation |-> 3] }

MetProfiles ==
  { [min_width |-> 2, min_seperation |-> 2],
    [min_width |-> 6, min_seperation |-> 4] }

\* the rule table built from one profile per cut and per metal
PdkOf(c, m) ==
  [ width |-> [l \in {CutAt(k) : k \in 0..(MaxLevel - 1)} |-> c[l.digit].width],
    min_width |-> [l \in {Met(n) : n \in 1..MaxLevel} |-> m[l.digit].min_width],
    min_enclosure |->
      [p \in {<<Met(n), CutAt(k)>> : n \in 1..MaxLevel, k \in 0..(MaxLevel - 1)} |->
         IF p[1].digit = p[2].digit THEN c[p[2].digit].enc_lower
         ELSE c[p[2].digit].enc_upper],
    min_seperation |->
      [l \in RuleLayers |->
         IF l.stem = "met" THEN m[l.digit].min_seperation
         ELSE c[l.digit].min_seperation] ]

Pdks ==
  { PdkOf(c, m) : c \in [0..(MaxLevel - 1) -> CutProfiles],
                  m \in [1..MaxLevel -> MetProfiles] }

\* the areas a caller may request
Dims == {MaxDim \div 6, MaxDim \div 2, MaxDim}

Sizes == Dims \X Dims

-----------------------------------------------------------------------------
(* the layer order resolver                                                *)

is_routable_glayer(g) == g.stem \in {"met", "active_diff", "poly"}

\* int(glayer[-1]) if "met" in glayer else 0
LevelOf(g) == IF g.stem = "met" THEN g.digit ELSE 0

\* the buggy swap level1 = level2; level2 = level1
OrderLevels_SequentialSwap(l1, l2) == IF l1 > l2 THEN <<l2, l2>> ELSE <<l1, l2>>

OrderLevels(l1, l2) == IF l1 > l2 THEN <<l2, l1>> ELSE <<l1, l2>>

error_check_order_layers(g1, g2) ==
  IF ~(is_routable_glayer(g1) /\ is_routable_glayer(g2))
  THEN [err |-> "ValueError: specify between two routable layers", levels |-> <<0, 0>>]
  ELSE [err |-> "", levels |-> OrderLevels(LevelOf(g1), LevelOf(g2))]

-----------------------------------------------------------------------------
(* via_stack                                                               *)

\* rectangle(size=(s, s), layer=..., centered=True)
Rect(l, s) == [layer |-> l, size |-> s, centered |-> TRUE]

\* a pad that ignores the layer's minimum width
MetDim_NoMinWidth(p, met, cut) == 2 * p.min_enclosure[<<met, cut>>] + p.width[cut]

\* max(2 * min_enclosure + width, min_width)
MetDim(p, met, cut) ==
  Max(2 * p.min_enclosure[<<met, cut>>] + p.width[cut], p.min_width[met])

BaseContact(p) == << Rect(Mcon, p.width[Mcon]), Rect(Met(1), MetDim(p, Met(1), Mcon)) >>

\* one pass of the loop body laying the cut before its pad
LoopBody_ViaFirst(p, level) ==
  << Rect(Via(level), p.width[Via(level)]),
     Rect(Met(level), MetDim(p, Met(level), Via(level))) >>

\* one pass of the loop: the pad of this level, then the via above it
LoopBody(p, level) ==
  << Rect(Met(level), MetDim(p, Met(level), Via(level))),
     Rect(Via(level), p.width[Via(level)]) >>

RECURSIVE MetalStack(_, _, _)
\* for level in range(level, level2)
MetalStack(p, level, level2) ==
  IF level >= level2 THEN <<>>
  ELSE LoopBody(p, level) \o MetalStack(p, level + 1, level2)

\* the final pad, sized against the last via of the loop
FinalMet(p, level2) == << Rect(Met(level2), MetDim(p, Met(level2), Via(level2 - 1))) >>

\* the same-level return taken for metals only (if level1 and level1 == level2)
StackPrims_SameLevelMetalsOnly(p, l1, l2) ==
  IF l1 = l2 /\ l1 # 0 THEN <<>>
  ELSE LET base == IF l1 = 0 THEN BaseContact(p) ELSE <<>>
           first == IF l1 = 0 THEN 1 ELSE l1
       IN IF first = l2 \/ l2 = 0 THEN base
          ELSE base \o MetalStack(p, first, l2) \o FinalMet(p, l2)

\* the primitives of via_stack for resolved levels l1 <= l2, in the order laid
StackPrims(p, l1, l2) ==
  IF l1 = l2 THEN <<>>
  ELSE LET base == IF l1 = 0 THEN BaseContact(p) ELSE <<>>
           first == IF l1 = 0 THEN 1 ELSE l1
       IN IF first = l2 THEN base
          ELSE base \o MetalStack(p, first, l2) \o FinalMet(p, l2)

\* the whole call: the error raised, or the primitives of the component
ViaStackCall(p, g1, g2) ==
  LET r == error_check_order_layers(g1, g2)
  IN IF r.err # "" THEN [err |-> r.err, prims |-> <<>>]
     ELSE [err |-> "", prims |-> StackPrims(p, r.levels[1], r.levels[2])]

\* xmax - xmin of a component of centered squares
StackDim(prims) == IF prims = <<>> THEN 0 ELSE SeqMax([i \in 1..Len(prims) |-> prims[i].size])

-----------------------------------------------------------------------------
(* via_array                                                               *)

RECURSIVE SpacingLoop(_, _)
\* the metal and the via of every level in range(level, level2)
SpacingLoop(level, level2) ==
  IF level >= level2 THEN <<>>
  ELSE <<Met(level), Via(level)>> \o SpacingLoop(level + 1, level2)

\* the spacing list started empty whatever the first level
SpacingLayers_NoMcon(l1, l2) ==
  SpacingLoop(IF l1 = 0 THEN 1 ELSE l1, l2) \o <<Met(l2)>>

\* the layers whose min_seperation enters via_spacing, in the order appended
SpacingLayers(l1, l2) ==
  (IF l1 = 0 THEN <<Mcon>> ELSE <<>>)
    \o SpacingLoop(IF l1 = 0 THEN 1 ELSE l1, l2) \o <<Met(l2)>>

\* max(via_spacing)
ViaSpacing(p, l1, l2) ==
  LET ls == SpacingLayers(l1, l2)
  IN SeqMax([i \in 1..Len(ls) |-> p.min_seperation[ls[i]]])

\* any([viadim > dim for dim in size])
TooSmall(viadim, sz) == \E i \in 1..2 : viadim > sz[i]

\* the count without the "or 1"
NumVias_NoFloorOfOne(dim, viadim, spacing) == dim \div (viadim + spacing)

\* the count taken over the stack alone, the spacing forgotten
NumVias_NoSpacing(dim, viadim, spacing) ==
  LET n == dim \div viadim IN IF n = 0 THEN 1 ELSE n

\* floor(dim / (viadim + via_spacing)) or 1
NumVias(dim, viadim, spacing) ==
  LET n == dim \div (viadim + spacing) IN IF n = 0 THEN 1 ELSE n

\* the multiplier with floor in place of ceil
SpacingMultiplier_Floor(vianum) ==
  (IF vianum % 2 = 0 THEN 1 ELSE -1) * (vianum \div 2)

\* ((-1) ** vianum) * ceil(vianum / 2)
SpacingMultiplier(vianum) ==
  (IF vianum % 2 = 0 THEN 1 ELSE -1) * ((vianum + 1) \div 2)

\* the move without the correction for an even count
Offset2_NoEvenAdjust(vianum, n, full) == 2 * SpacingMultiplier(vianum) * full

\* twice the distance a reference is moved: the multiple of the full pitch,
\* and half a pitch more when the count is even
Offset2(vianum, n, full) ==
  2 * SpacingMultiplier(vianum) * full + (IF n % 2 = 0 THEN full ELSE 0)

\* the moves of all the references of one axis, in the order placed
Offsets2(n, full) == [i \in 1..n |-> Offset2(i - 1, n, full)]

\* rectangle(size=size, layer=met<level2>, centered=True)
TopMet(l2, sz) == [layer |-> Met(l2), size |-> sz, centered |-> TRUE]

Empty == [err |-> "", viastack |-> <<>>, xs |-> <<>>, ys |-> <<>>, top |-> <<>>]

\* the whole call: the error raised, or the references and the plate placed
ViaArrayCall(p, g1, g2, sz) ==
  LET r == error_check_order_layers(g1, g2)
      l1 == r.levels[1]
      l2 == r.levels[2]
      spacing == ViaSpacing(p, l1, l2)
      stack == ViaStackCall(p, g1, g2).prims
      d == StackDim(stack)
  IN IF r.err # "" THEN [Empty EXCEPT !.err = r.err]
     ELSE IF l1 = l2 THEN Empty
     ELSE IF TooSmall(d, sz)
          THEN [Empty EXCEPT !.err = "ValueError: via_array size: one or more dims too small"]
     ELSE [err |-> "", viastack |-> stack,
           xs |-> Offsets2(NumVias(sz[1], d, spacing), spacing + d),
           ys |-> Offsets2(NumVias(sz[2], d, spacing), spacing + d),
           top |-> <<TopMet(l2, sz)>>]

\* viaarray.flatten(): every primitive with its size and (doubled) centre
Flatten(stack, xs, ys, top) ==
  { [layer |-> stack[k].layer, w |-> stack[k].size, h |-> stack[k].size,
     cx2 |-> xs[i], cy2 |-> ys[j]] :
       k \in 1..Len(stack), i \in 1..Len(xs), j \in 1..Len(ys) }
  \cup { [layer |-> top[k].layer, w |-> top[k].size[1], h |-> top[k].size[2],
          cx2 |-> 0, cy2 |-> 0] : k \in 1..Len(top) }

-----------------------------------------------------------------------------
(* the calls as a state machine                                            *)

VARIABLES pdk, fn, glayer1, glayer2, size, pc, err, level1, level2,
          via_spacing, viastack, viadim, viaspacing_full, num_vias, vianum,
          horizontal_vias, viaarray, top_met

inputs == <<pdk, fn, glayer1, glayer2, size>>

vars == <<pdk, fn, glayer1, glayer2, size, pc, err, level1, level2,
          via_spacing, viastack, viadim, viaspacing_full, num_vias, vianum,
          horizontal_vias, viaarray, top_met>>

Init ==
  /\ pdk \in Pdks
  /\ fn \in {"via_stack", "via_array"}
  /\ glayer1 \in GLayers
  /\ glayer2 \in GLayers
  /\ size \in (IF fn = "via_array" THEN Sizes ELSE {<<0, 0>>})
  /\ pc = "start"
  /\ err = ""
  /\ level1 = 0
  /\ level2 = 0
  /\ via_spacing = 0
  /\ viastack = <<>>
  /\ viadim = 0
  /\ viaspacing_full = 0
  /\ num_vias = <<0, 0>>
  /\ vianum = 0
  /\ horizontal_vias = <<>>
  /\ viaarray = <<>>
  /\ top_met = <<>>

via_stack ==
  /\ fn = "via_stack"
  /\ pc = "start"
  /\ LET r == ViaStackCall(pdk, glayer1, glayer2)
     IN /\ err' = r.err
        /\ viastack' = r.prims
        /\ pc' = IF r.err # "" THEN "raised" ELSE "done"
  /\ UNCHANGED <<inputs, level1, level2, via_spacing, viadim, viaspacing_full,
                 num_vias, vianum, horizontal_vias, viaarray, top_met>>

via_array_resolve ==
  /\ fn = "via_array"
  /\ pc = "start"
  /\ LET r == error_check_order_layers(glayer1, glayer2)
     IN /\ err' = r.err
        /\ level1' = r.levels[1]
        /\ level2' = r.levels[2]
        /\ pc' = IF r.err # "" THEN "raised"
                 ELSE IF r.levels[1] = r.levels[2] THEN "done" ELSE "spacing"
  /\ UNCHANGED <<inputs, via_spacing, viastack, viadim, viaspacing_full,
                 num_vias, vianum, horizontal_vias, viaarray, top_met>>

via_array_spacing ==
  /\ pc = "spacing"
  /\ via_spacing' = ViaSpacing(pdk, level1, level2)
  /\ level1' = IF level1 = 0 THEN 1 ELSE level1
  /\ pc' = "check"
  /\ UNCHANGED <<inputs, err, level2, viastack, viadim, viaspacing_full,
                 num_vias, vianum, horizontal_vias, viaarray, top_met>>

via_array_check ==
  /\ pc = "check"
  /\ LET stack == ViaStackCall(pdk, glayer1, glayer2).prims
         d == StackDim(stack)
     IN /\ viastack' = stack
        /\ viadim' = d
        /\ IF TooSmall(d, size)
           THEN /\ err' = "ValueError: via_array size: one or more dims too small"
                /\ pc' = "raised"
                /\ UNCHANGED <<viaspacing_full, num_vias>>
           ELSE /\ viaspacing_full' = via_spacing + d
                /\ num_vias' = [i \in 1..2 |-> NumVias(size[i], d, via_spacing)]
                /\ pc' = "horizontal"
                /\ err' = err
  /\ UNCHANGED <<inputs, level1, level2, via_spacing, vianum, horizontal_vias,
                 viaarray, top_met>>

via_array_horizontal ==
  /\ pc = "horizontal"
  /\ vianum < num_vias[1]
  /\ horizontal_vias' =
       Append(horizontal_vias, Offset2(vianum, num_vias[1], viaspacing_full))
  /\ IF vianum + 1 < num_vias[1]
     THEN vianum' = vianum + 1 /\ pc' = pc
     ELSE vianum' = 0 /\ pc' = "vertical"
  /\ UNCHANGED <<inputs, err, level1, level2, via_spacing, viastack, viadim,
                 viaspacing_full, num_vias, viaarray, top_met>>

via_array_vertical ==
  /\ pc = "vertical"
  /\ vianum < num_vias[2]
  /\ viaarray' = Append(viaarray, Offset2(vianum, num_vias[2], viaspacing_full))
  /\ IF vianum + 1 < num_vias[2]
     THEN vianum' = vianum + 1 /\ pc' = pc
     ELSE vianum' = 0 /\ pc' = "top"
  /\ UNCHANGED <<inputs, err, level1, level2, via_spacing, viastack, viadim,
                 viaspacing_full, num_vias, horizontal_vias, top_met>>

via_array_top ==
  /\ pc = "top"
  /\ top_met' = <<TopMet(level2, size)>>
  /\ pc' = "done"
  /\ UNCHANGED <<inputs, err, level1, level2, via_spacing, viastack, viadim,
                 viaspacing_full, num_vias, vianum, horizontal_vias, viaarray>>

Next ==
  \/ via_stack
  \/ via_array_resolve
  \/ via_array_spacing
  \/ via_array_check
  \/ via_array_horizontal
  \/ via_array_vertical
  \/ via_array_top

Spec == Init /\ [][Next]_vars

-----------------------------------------------------------------------------
(* vocabulary of the properties                                            *)

Terminal == pc \in {"done", "raised"}

Routable == is_routable_glayer(glayer1) /\ is_routable_glayer(glayer2)

LevelLow == IF LevelOf(glayer1) < LevelOf(glayer2) THEN LevelOf(glayer1) ELSE LevelOf(glayer2)

LevelHigh == IF LevelOf(glayer1) < LevelOf(glayer2) THEN LevelOf(glayer2) ELSE LevelOf(glayer1)

NothingPlaced == horizontal_vias = <<>> /\ viaarray = <<>> /\ top_met = <<>>

IsMetal(prim) == prim.layer.stem = "met"

SetMax(S) == CHOOSE m \in S : \A x \in S : x <= m

SetMin(S) == CHOOSE m \in S : \A x \in S : m <= x

Abs(x) == IF x < 0 THEN 0 - x ELSE x

Range(s) == {s[i] : i \in 1..Len(s)}

\* the side a pad on metal met needs to enclose the cut
Needed(met, cut) == 2 * pdk.min_enclosure[<<met, cut>>] + pdk.width[cut]

\* the axes whose loop has finished, as <<offsets, count, axis length>>
DoneAxes ==
  (IF pc \in {"vertical", "top", "done"}
   THEN {<<horizontal_vias, num_vias[1], size[1]>>} ELSE {})
  \cup (IF pc \in {"top", "done"} THEN {<<viaarray, num_vias[2], size[2]>>} ELSE {})

-----------------------------------------------------------------------------
\* C1: for routable layers the outcome of via_stack and of via_array is the
\* same geometry (primitives, layers, sizes, positions) when the two layer
\* arguments are exchanged.
C1_Commutative ==
  (Terminal /\ Routable) =>
    IF fn = "via_stack"
    THEN [err |-> err, prims |-> viastack] = ViaStackCall(pdk, glayer2, glayer1)
    ELSE LET r == ViaArrayCall(pdk, glayer2, glayer1, size)
         IN /\ err = r.err
            /\ Flatten(viastack, horizontal_vias, viaarray, top_met)
                 = Flatten(r.viastack, r.xs, r.ys, r.top)

C1_Witness ==
  /\ pc = "done"
  /\ fn = "via_array"
  /\ LevelOf(glayer1) > LevelOf(glayer2)
  /\ top_met # <<>>
  /\ Len(horizontal_vias) >= 2

\* C2 as stated: for every layer A, via_stack(r, A, A) and via_array(r, A, A,
\* size) end without an error and with an empty geometry.
C2_Original ==
  (Terminal /\ glayer1 = glayer2) =>
    /\ pc = "done"
    /\ err = ""
    /\ viastack = <<>>
    /\ NothingPlaced

\* C2 (amended): for every routable layer A, via_stack(r, A, A) and
\* via_array(r, A, A, size) raise no error and never place anything: no
\* primitive, no stack and no top plate.
C2_IdentityRoutable ==
  (glayer1 = glayer2 /\ Routable) =>
    /\ pc \in {"start", "done"}
    /\ err = ""
    /\ viastack = <<>>
    /\ NothingPlaced

C2_Witness ==
  /\ pc = "done"
  /\ glayer1 = glayer2
  /\ Routable
  /\ LevelOf(glayer1) = 0

\* C3: every metal pad of a stack is at least as wide as its layer's minimum
\* width and as 2 * enclosure + width of its adjacent cut: the cut laid right
\* after it, else (first met1 pad, final pad) the cut laid right before it.
C3_MonotonicSizing ==
  \A i \in 1..Len(viastack) :
    IsMetal(viastack[i]) =>
      LET pad == viastack[i]
          adj == IF i < Len(viastack) /\ ~IsMetal(viastack[i + 1])
                 THEN viastack[i + 1].layer
                 ELSE viastack[i - 1].layer
      IN /\ adj.stem # "met"
         /\ pad.size >= pdk.min_width[pad.layer]
         /\ pad.size >= Needed(pad.layer, adj)

C3_Witness ==
  /\ pc = "done"
  /\ fn = "via_stack"
  /\ Len(viastack) >= 5
  /\ \E i \in 1..Len(viastack) :
       /\ IsMetal(viastack[i])
       /\ viastack[i].size = pdk.min_width[viastack[i].layer]
  /\ \E i \in 1..Len(viastack) :
       /\ IsMetal(viastack[i])
       /\ viastack[i].size > pdk.min_width[viastack[i].layer]

\* C4: with distinct levels via_array raises the size error, nothing placed,
\* exactly when the stack is wider than one of the sides; otherwise each count
\* is floor(side / (d + margin)) raised to at least 1 and the finished array
\* holds count_x * count_y stacks (d = 5, margin = 3, area 40 x 20: 5 x 2).
C4_AreaFloor ==
  /\ NumVias(40, 5, 3) = 5
  /\ NumVias(20, 5, 3) = 2
  /\ (fn = "via_array" /\ Routable /\ LevelLow # LevelHigh) =>
       LET d == StackDim(ViaStackCall(pdk, glayer1, glayer2).prims)
           small == d > size[1] \/ d > size[2]
       IN /\ (pc = "raised") => (small /\ NothingPlaced)
          /\ small => (pc \in {"start", "spacing", "check", "raised"} /\ NothingPlaced)
          /\ (pc \in {"horizontal", "vertical", "top", "done"}) =>
               \A i \in 1..2 :
                 /\ num_vias[i] = Max(1, size[i] \div (d + via_spacing))
                 /\ num_vias[i] >= 1
          /\ (pc = "done") =>
               /\ Len(horizontal_vias) = num_vias[1]
               /\ Len(viaarray) = num_vias[2]
               /\ Cardinality({<<x, y>> : x \in Range(horizontal_vias), y \in Range(viaarray)})
                    = num_vias[1] * num_vias[2]

C4_Witness ==
  /\ pc = "done"
  /\ fn = "via_array"
  /\ size[1] < viadim + via_spacing
  /\ num_vias[1] = 1
  /\ num_vias[2] >= 2

\* C5 as stated: on a finished axis with an odd count n the instance of index
\* (n - 1) / 2 is at offset 0; with an even count no instance is at offset 0
\* and the offsets are symmetric about 0.
C5_Original ==
  \A a \in DoneAxes :
    LET s == a[1]
        n == a[2]
    IN IF n % 2 = 1
       THEN s[((n - 1) \div 2) + 1] = 0
       ELSE /\ 0 \notin Range(s)
            /\ \A x \in Range(s) : (0 - x) \in Range(s)

\* C5 (amended): on a finished axis with an odd count n the instance of index
\* 0 (the first placed) is at offset 0, it is the only one there and
\* (n - 1) / 2 instances lie on either side of it; with an even count no
\* instance is at offset 0 and the offsets are symmetric about 0.
C5_Symmetry ==
  \A a \in DoneAxes :
    LET s == a[1]
        n == a[2]
    IN /\ Len(s) = n
       /\ IF n % 2 = 1
          THEN /\ s[1] = 0
               /\ \A i \in 2..n : s[i] # 0
               /\ Cardinality({i \in 1..n : s[i] < 0}) = (n - 1) \div 2
               /\ Cardinality({i \in 1..n : s[i] > 0}) = (n - 1) \div 2
          ELSE /\ 0 \notin Range(s)
               /\ \A x \in Range(s) : (0 - x) \in Range(s)

C5_Witness ==
  /\ pc = "done"
  /\ num_vias[1] % 2 = 1
  /\ num_vias[1] >= 3
  /\ num_vias[2] % 2 = 0

\* C6: on a finished axis the n instance centres are n distinct positions
\* spaced exactly d + margin apart, with no slot skipped.
C6_Pitch ==
  \A a \in DoneAxes :
    LET s == a[1]
        n == a[2]
        lo == SetMin(Range(s))
    IN /\ Len(s) = n
       /\ Cardinality(Range(s)) = n
       /\ Range(s) = {lo + 2 * k * (viadim + via_spacing) : k \in 0..(n - 1)}

C6_Witness ==
  /\ pc = "done"
  /\ num_vias[1] >= 4
  /\ num_vias[2] = 2

\* C7: once computed (distinct levels), the margin of via_array is the largest
\* min_seperation over exactly the layers on which via_stack for the same pair
\* lays a primitive.
C7_Margin ==
  (fn = "via_array" /\ Routable /\ LevelLow # LevelHigh
     /\ pc \in {"check", "horizontal", "vertical", "top", "done", "raised"}) =>
    LET drawn == {p.layer : p \in Range(ViaStackCall(pdk, glayer1, glayer2).prims)}
    IN /\ Range(SpacingLayers(LevelLow, LevelHigh)) = drawn
       /\ via_spacing = SetMax({pdk.min_seperation[l] : l \in drawn})

C7_Witness ==
  /\ pc = "done"
  /\ fn = "via_array"
  /\ LevelLow = 0
  /\ LevelHigh >= 2
  /\ via_spacing = pdk.min_seperation[Mcon]
  /\ \A l \in RuleLayers \ {Mcon} : pdk.min_seperation[l] < via_spacing

\* C8 as stated: a non-empty stack strictly alternates metal pads and cuts, no
\* metal layer holds two pads, and every primitive is centred on the origin.
C8_Original ==
  /\ \A i \in 1..(Len(viastack) - 1) : IsMetal(viastack[i]) # IsMetal(viastack[i + 1])
  /\ \A i, j \in 1..Len(viastack) :
       (IsMetal(viastack[i]) /\ viastack[i].layer = viastack[j].layer) => i = j
  /\ \A i \in 1..Len(viastack) : viastack[i].centered

\* the primitives from position k on go pad, via, pad, ... from met<lo> up to
\* met<hi>, one pad per metal
AlternatesFrom(s, k, lo, hi) ==
  /\ Len(s) = k + 2 * (hi - lo)
  /\ \A L \in lo..hi : s[k + 2 * (L - lo)].layer = Met(L)
  /\ \A L \in lo..(hi - 1) : s[k + 2 * (L - lo) + 1].layer = Via(L)

\* C8 (amended): every primitive of a stack is centred on the origin; from a
\* metal level_low the stack alternates pad, via, ..., pad from met<level_low>
\* to met<level_high>, one pad per metal; from level 0 it is the contact and a
\* met1 pad, followed when level_high >= 2 by a second met1 pad that starts
\* the same alternation up to met<level_high>.
C8_Composition ==
  (viastack # <<>>) =>
    /\ \A i \in 1..Len(viastack) : viastack[i].centered
    /\ IF LevelLow >= 1
       THEN AlternatesFrom(viastack, 1, LevelLow, LevelHigh)
       ELSE /\ viastack[1].layer = Mcon
            /\ viastack[2].layer = Met(1)
            /\ IF LevelHigh = 1 THEN Len(viastack) = 2
               ELSE AlternatesFrom(viastack, 3, 1, LevelHigh)

C8_Witness ==
  /\ pc = "done"
  /\ fn = "via_stack"
  /\ LevelLow = 0
  /\ LevelHigh >= 2
  /\ viastack[2].layer = viastack[3].layer

\* C9: every placed stack, a square of side d about its centre, lies inside
\* the requested area about the origin on both axes.
C9_Containment ==
  /\ \A i \in 1..Len(horizontal_vias) : Abs(horizontal_vias[i]) + viadim <= size[1]
  /\ \A j \in 1..Len(viaarray) : Abs(viaarray[j]) + viadim <= size[2]
  /\ \A a \in DoneAxes : (a[2] - 1) * (viadim + via_spacing) + viadim <= a[3]

C9_Witness ==
  /\ pc = "done"
  /\ num_vias[1] >= 3
  /\ size[2] < viadim + via_spacing
  /\ num_vias[2] = 1
  /\ via_spacing >= 0

\* C10: in a stack over more than one via level every cut has, on the metal
\* right below it and on the metal right above it, a pad of side at least
\* 2 * min_enclosure(metal, cut) + width(cut).
C10_Enclosure ==
  (viastack # <<>> /\ LevelHigh - LevelLow >= 2) =>
    \A i \in 1..Len(viastack) :
      ~IsMetal(viastack[i]) =>
        LET cut == viastack[i].layer
            k == cut.digit
        IN /\ \E j \in 1..Len(viastack) :
                /\ viastack[j].layer = Met(k + 1)
                /\ viastack[j].size >= Needed(Met(k + 1), cut)
           /\ (k >= 1) =>
                \E j \in 1..Len(viastack) :
                  /\ viastack[j].layer = Met(k)
                  /\ viastack[j].size >= Needed(Met(k), cut)

=============================================================================
